---- MODULE Spec2Model ----
(***************************************************************************)
(* iphone_backup.py: extract an iCloud export archive into a staging       *)
(* directory, copy every media file into                                   *)
(*   <dest>/family/<YYYY>/<MonthName>/<Category>/<name[_N].ext>            *)
(* and delete the staging directory and the archive only when no file was  *)
(* left unprocessed.                                                       *)
(*                                                                         *)
(* A filename is a sequence of one-character strings.  A staged file is a  *)
(* record [dir, name]; its content is identified with the file it came     *)
(* from, so that a copy can be told from every other file.                 *)
(***************************************************************************)
EXTENDS Integers, Sequences, FiniteSets, TLC

VARIABLES
    pc,               \* position in process_zip_and_organize_files / organize_files
    err,              \* the exception raised in the run, "none" if none
    zip,              \* the entries of iCloud_backup.zip
    staging_exists,   \* whether the directory extract_to exists
    staging,          \* extract_to: staged file -> content
    todo,             \* files os.walk has yet to yield
    cur,              \* the locals of the loop body of organize_files
    dirs,             \* the category directories that exist under dest_dir
    dest,             \* destination path -> content
    copied_files,     \* organize_files: copied_files
    remaining_files,  \* organize_files: remaining_files
    reported,         \* what has been printed: <<>> or <<copied, remaining>>
    removed,          \* what the run has deleted: subset of {"staging", "archive"}
    cname,            \* classification run: the filename
    ccat              \* classification run: its category, "" before classification

vars == <<pc, err, zip, staging_exists, staging, todo, cur, dirs, dest, copied_files,
          remaining_files, reported, removed, cname, ccat>>

-----------------------------------------------------------------------------
(* Bounds *)

MaxFiles == 2     \* entries in the archive

-----------------------------------------------------------------------------
(* Strings *)

CaseMap ==
    { <<"a", "A">>, <<"b", "B">>, <<"e", "E">>, <<"f", "F">>, <<"g", "G">>,
      <<"h", "H">>, <<"i", "I">>, <<"j", "J">>, <<"m", "M">>, <<"n", "N">>,
      <<"o", "O">>, <<"p", "P">>, <<"t", "T">>, <<"v", "V">>, <<"w", "W">>,
      <<"x", "X">> }

to_lower(c) ==
    IF \E p \in CaseMap : p[2] = c
    THEN (CHOOSE p \in CaseMap : p[2] = c)[1]
    ELSE c

to_upper(c) ==
    IF \E p \in CaseMap : p[1] = c
    THEN (CHOOSE p \in CaseMap : p[1] = c)[2]
    ELSE c

lower(s) == [i \in 1..Len(s) |-> to_lower(s[i])]

upper(s) == [i \in 1..Len(s) |-> to_upper(s[i])]

capitalize(s) == [i \in 1..Len(s) |-> IF i = 1 THEN to_upper(s[i]) ELSE s[i]]

endswith(s, suffix) ==
    /\ Len(suffix) <= Len(s)
    /\ SubSeq(s, Len(s) - Len(suffix) + 1, Len(s)) = suffix

DigitChars == <<"0", "1", "2", "3", "4", "5", "6", "7", "8", "9">>

RECURSIVE str(_)
str(n) ==
    IF n < 10 THEN <<DigitChars[n + 1]>>
    ELSE str(n \div 10) \o <<DigitChars[(n % 10) + 1]>>

\* os.path.splitext on a name without separators: the extension starts at the
\* last dot, unless only dots precede it.
splitext(p) ==
    LET dots == {i \in 1..Len(p) : p[i] = "."}
        dotIndex == IF dots = {} THEN 0
                    ELSE CHOOSE i \in dots : \A j \in dots : j <= i
    IN  IF dotIndex > 0 /\ \E k \in 1..(dotIndex - 1) : p[k] # "."
        THEN <<SubSeq(p, 1, dotIndex - 1), SubSeq(p, dotIndex, Len(p))>>
        ELSE <<p, <<>>>>

\* os.path.join(root, file)
path_join(root, file) == <<root, "/">> \o file

-----------------------------------------------------------------------------
(* Classification *)

picture_extensions ==
    { <<".", "j", "p", "e", "g">>, <<".", "j", "p", "g">>,
      <<".", "p", "n", "g">>, <<".", "h", "e", "i", "f">> }

video_extensions ==
    { <<".", "m", "p", "4">>, <<".", "m", "o", "v">>, <<".", "a", "v", "i">> }

audio_extensions == { <<".", "w", "a", "v">> }

\* Variant: the comparison without lower().
is_file_type_case_sensitive(file_path, extensions) ==
    \E e \in extensions : endswith(file_path, e)

is_file_type(file_path, extensions) ==
    \E e \in extensions : endswith(lower(file_path), e)

\* The if/elif chain of organize_files.
category(file) ==
    IF is_file_type(file, picture_extensions) THEN "Pictures"
    ELSE IF is_file_type(file, video_extensions) THEN "Videos"
    ELSE IF is_file_type(file, audio_extensions) THEN "Audio"
    ELSE "Unclassified"

-----------------------------------------------------------------------------
(* Creation dates *)

Dates == { [year |-> 2021, month |-> 6], [year |-> 2022, month |-> 1] }

NoDate == [year |-> 0, month |-> 0]

MonthNames ==
    <<"January", "February", "March", "April", "May", "June", "July",
      "August", "September", "October", "November", "December">>

\* creation_date.strftime("%Y"), creation_date.strftime("%B")
strftime_Y(d) == ToString(d.year)

strftime_B(d) == MonthNames[d.month]

\* What a file's embedded metadata holds, and what reading its modification
\* time gives.  NotRead stands for a value the run never looks at.
MetaNotRead == [kind |-> "notread", date |-> NoDate]

MtimeNotRead == [ok |-> FALSE, date |-> NoDate, read |-> FALSE]

MetaOutcomes ==
    { [kind |-> "valid", date |-> d] : d \in Dates }
        \cup { [kind |-> k, date |-> NoDate] : k \in {"absent", "malformed", "unreadable"} }

BadMeta == {"absent", "malformed", "unreadable"}

Mtimes ==
    { [ok |-> TRUE, date |-> d, read |-> TRUE] : d \in Dates }
        \cup { [ok |-> FALSE, date |-> NoDate, read |-> TRUE] }

\* The value of a call: a datetime, None, or an exception leaving the call.
Returned(d) == [tag |-> "date", date |-> d, exc |-> "none"]

None == [tag |-> "none", date |-> NoDate, exc |-> "none"]

Raised(e) == [tag |-> "raise", date |-> NoDate, exc |-> e]

\* The body of the try block of get_image_creation_date: Image.open and
\* _getexif raise on an unreadable file, strptime raises on a malformed tag.
read_exif(meta) ==
    CASE meta.kind = "unreadable" -> Raised("metadata")
      [] meta.kind = "malformed"  -> Raised("metadata")
      [] meta.kind = "absent"     -> None
      [] OTHER                    -> Returned(meta.date)

\* Variant: the try block without its except clause.
get_image_creation_date_uncaught(meta) == read_exif(meta)

get_image_creation_date(meta) ==
    LET r == read_exif(meta)
    IN  IF r.tag = "raise" THEN None ELSE r

\* The body of the try block of get_video_creation_date.
read_container(meta) ==
    CASE meta.kind = "unreadable" -> Raised("metadata")
      [] meta.kind = "malformed"  -> Raised("metadata")
      [] meta.kind = "absent"     -> None
      [] OTHER                    -> Returned(meta.date)

get_video_creation_date(meta) ==
    LET r == read_container(meta)
    IN  IF r.tag = "raise" THEN None ELSE r

\* datetime.fromtimestamp(os.path.getmtime(file_path))
getmtime(mtime) ==
    IF mtime.ok THEN Returned(mtime.date) ELSE Raised("getmtime")

get_creation_date(file_path, meta, mtime) ==
    LET creation_date ==
            IF is_file_type(file_path, picture_extensions)
            THEN get_image_creation_date(meta)
            ELSE IF is_file_type(file_path, video_extensions)
            THEN get_video_creation_date(meta)
            ELSE None
    IN  IF creation_date.tag = "none" THEN getmtime(mtime) ELSE creation_date

\* The metadata get_creation_date reads from a file: none unless the file is
\* taken for a picture or a video.
MetaRead(file_path) ==
    IF is_file_type(file_path, picture_extensions)
          \/ is_file_type(file_path, video_extensions)
    THEN MetaOutcomes
    ELSE {MetaNotRead}

\* The modification time is read only when no embedded date was found.
MtimeRead(file_path, meta) ==
    IF meta.kind = "valid" THEN {MtimeNotRead} ELSE Mtimes

-----------------------------------------------------------------------------
(* Destination tree *)

dest_dir == "/path/to/destination/directory"

\* os.path.join(dest_dir, "family", year, month, category)
target_dir_of(year, month, cat) == <<dest_dir, "family", year, month, cat>>

\* os.path.exists(os.path.join(directory, filename))
path_exists(directory, filename) ==
    [dir |-> directory, name |-> filename] \in DOMAIN dest

suffixed(base, counter, extension) == base \o <<"_">> \o str(counter) \o extension

RECURSIVE unique_loop(_, _, _, _, _)
unique_loop(directory, base, extension, new_filename, counter) ==
    IF path_exists(directory, new_filename)
    THEN unique_loop(directory, base, extension,
                     suffixed(base, counter, extension), counter + 1)
    ELSE new_filename

\* Variant: the filename is used as it is.
generate_unique_filename_overwrite(directory, filename) == filename

\* Variant: the counter starts at 2.
generate_unique_filename_from_2(directory, filename) ==
    LET se == splitext(filename)
    IN  unique_loop(directory, se[1], se[2], filename, 2)

generate_unique_filename(directory, filename) ==
    LET se == splitext(filename)
    IN  unique_loop(directory, se[1], se[2], filename, 1)

\* shutil.copy2(src, dst): the two trees afterwards.
\* Variant: shutil.move in place of shutil.copy2.
move(src, dst) ==
    [ src |-> [f \in (DOMAIN staging) \ {src} |-> staging[f]],
      dst |-> [p \in (DOMAIN dest) \cup {dst} |->
                  IF p = dst THEN staging[src] ELSE dest[p]] ]

copy2(src, dst) ==
    [ src |-> staging,
      dst |-> [p \in (DOMAIN dest) \cup {dst} |->
                  IF p = dst THEN staging[src] ELSE dest[p]] ]

-----------------------------------------------------------------------------
(* Inputs *)


a_jpg == <<"a", ".", "j", "p", "g">>
a_1_jpg == <<"a", "_", "1", ".", "j", "p", "g">>
a_avi == <<"a", ".", "a", "v", "i">>
a_txt == <<"a", ".", "t", "x", "t">>

\* The entries an archive may hold: two pictures of the same name in two
\* folders, a video and a text file.
StagedFiles ==
    { [dir |-> "d1", name |-> a_jpg], [dir |-> "d2", name |-> a_jpg],
      [dir |-> "d1", name |-> a_avi], [dir |-> "d2", name |-> a_txt] }

\* Files the destination may hold before the run.
PreContent == [dir |-> "pre", name |-> <<>>]

PreExisting ==
    { [dir |-> target_dir_of("2021", "June", "Pictures"), name |-> n] :
        n \in {a_jpg, a_1_jpg} }

NoFile == [dir |-> "", name |-> <<>>]

NoCur ==
    [ file |-> NoFile, meta |-> MetaNotRead,
      mtime |-> MtimeNotRead, creation_date |-> NoDate,
      year |-> "", month |-> "", category |-> "", target_dir |-> <<>> ]

-----------------------------------------------------------------------------
(* process_zip_and_organize_files *)

Init ==
    /\ pc = "idle"
    /\ err = "none"
    /\ zip \in {z \in SUBSET StagedFiles : Cardinality(z) <= MaxFiles}
    /\ staging_exists = FALSE
    /\ staging = [f \in {} |-> NoFile]
    /\ todo = {}
    /\ cur = NoCur
    /\ \E pre \in SUBSET PreExisting :
          /\ dest = [p \in pre |-> PreContent]
          /\ dirs = {p.dir : p \in pre}
    /\ copied_files = <<>>
    /\ remaining_files = <<>>
    /\ reported = <<>>
    /\ removed = {}
    /\ cname = <<>>
    /\ ccat = ""

\* The run is started.
Start ==
    /\ pc = "idle"
    /\ pc' = "extract"
    /\ UNCHANGED <<err, zip, staging_exists, staging, todo, cur, dirs, dest,
                   copied_files, remaining_files, reported, removed,
                   cname, ccat>>

\* extract_zip(zip_file_path, extract_to) returns.
ExtractZip ==
    /\ pc = "extract"
    /\ staging' = [f \in zip |-> f]
    /\ staging_exists' = (zip # {})
    /\ pc' = "organize"
    /\ UNCHANGED <<err, zip, todo, cur, dirs, dest, copied_files,
                   remaining_files, reported, removed, cname, ccat>>

\* extract_zip raises: the archive is corrupt or cannot be read.  Entries
\* extracted before the failure stay in the staging directory.
ExtractZipFail ==
    /\ pc = "extract"
    /\ \E part \in SUBSET zip :
          /\ staging' = [f \in part |-> f]
          /\ staging_exists' = (part # {})
    /\ err' = "extract"
    /\ pc' = "error"
    /\ UNCHANGED <<zip, todo, cur, dirs, dest, copied_files, remaining_files,
                   reported, removed, cname, ccat>>

\* organize_files(extract_to, dest_dir) is entered: the two lists are
\* empty and os.walk starts on the staging tree.
OrganizeEnter ==
    /\ pc = "organize"
    /\ copied_files' = <<>>
    /\ remaining_files' = <<>>
    /\ todo' = DOMAIN staging
    /\ pc' = "walk"
    /\ UNCHANGED <<err, zip, staging_exists, staging, cur, dirs, dest,
                   reported, removed, cname, ccat>>

\* The loop yields the next file, in whatever order os.walk gives, and
\* get_creation_date returns its date.
GetCreationDate ==
    /\ pc = "walk"
    /\ \E f \in todo :
       \E meta \in MetaRead(path_join(f.dir, f.name)) :
       \E mtime \in MtimeRead(path_join(f.dir, f.name), meta) :
          LET r == get_creation_date(path_join(f.dir, f.name), meta, mtime)
          IN  /\ r.tag = "date"
              /\ cur' = [ file |-> f, meta |-> meta, mtime |-> mtime,
                          creation_date |-> r.date,
                          year |-> strftime_Y(r.date),
                          month |-> strftime_B(r.date),
                          category |-> "", target_dir |-> <<>> ]
              /\ todo' = todo \ {f}
    /\ pc' = "classify"
    /\ UNCHANGED <<err, zip, staging_exists, staging, dirs, dest, copied_files,
                   remaining_files, reported, removed, cname, ccat>>

\* get_creation_date raises; nothing catches it.
GetCreationDateFail ==
    /\ pc = "walk"
    /\ \E f \in todo :
       \E meta \in MetaRead(path_join(f.dir, f.name)) :
       \E mtime \in MtimeRead(path_join(f.dir, f.name), meta) :
          LET r == get_creation_date(path_join(f.dir, f.name), meta, mtime)
          IN  /\ r.tag = "raise"
              /\ cur' = [NoCur EXCEPT !.file = f, !.meta = meta, !.mtime = mtime]
              /\ todo' = todo \ {f}
              /\ err' = r.exc
    /\ pc' = "error"
    /\ UNCHANGED <<zip, staging_exists, staging, dirs, dest, copied_files,
                   remaining_files, reported, removed, cname, ccat>>

\* The if/elif/else on the file's extension.
Classify ==
    /\ pc = "classify"
    /\ LET cat == category(cur.file.name)
       IN  IF cat = "Unclassified"
           THEN /\ remaining_files' = Append(remaining_files, cur.file)
                /\ pc' = "walk"
                /\ cur' = cur
           ELSE /\ cur' = [cur EXCEPT !.category = cat,
                              !.target_dir = target_dir_of(cur.year, cur.month, cat)]
                /\ pc' = "check_dir"
                /\ remaining_files' = remaining_files
    /\ UNCHANGED <<err, zip, staging_exists, staging, todo, dirs, dest,
                   copied_files, reported, removed, cname, ccat>>

\* if not os.path.exists(target_dir)
CheckDir ==
    /\ pc = "check_dir"
    /\ pc' = IF cur.target_dir \in dirs THEN "copy" ELSE "makedirs"
    /\ UNCHANGED <<err, zip, staging_exists, staging, todo, cur, dirs, dest,
                   copied_files, remaining_files, reported, removed,
                   cname, ccat>>

\* os.makedirs(target_dir) on a directory that does not exist.
MakeDirs ==
    /\ pc = "makedirs"
    /\ cur.target_dir \notin dirs
    /\ dirs' = dirs \cup {cur.target_dir}
    /\ pc' = "copy"
    /\ UNCHANGED <<err, zip, staging_exists, staging, todo, cur, dest,
                   copied_files, remaining_files, reported, removed,
                   cname, ccat>>

\* os.makedirs(target_dir) without exist_ok on a directory that exists.
MakeDirsFail ==
    /\ pc = "makedirs"
    /\ cur.target_dir \in dirs
    /\ err' = "FileExistsError"
    /\ pc' = "error"
    /\ UNCHANGED <<zip, staging_exists, staging, todo, cur, dirs, dest,
                   copied_files, remaining_files, reported, removed,
                   cname, ccat>>

\* Another process creates the directory the run is about to use.
OtherProcessMkdir ==
    /\ pc \in {"check_dir", "makedirs"}
    /\ cur.target_dir \notin dirs
    /\ dirs' = dirs \cup {cur.target_dir}
    /\ UNCHANGED <<pc, err, zip, staging_exists, staging, todo, cur, dest,
                   copied_files, remaining_files, reported, removed, cname, ccat>>

\* generate_unique_filename, shutil.copy2, copied_files.append
CopyFile ==
    /\ pc = "copy"
    /\ LET unique_filename == generate_unique_filename(cur.target_dir, cur.file.name)
           target_file_path == [dir |-> cur.target_dir, name |-> unique_filename]
           fs == copy2(cur.file, target_file_path)
       IN  /\ staging' = fs.src
           /\ dest' = fs.dst
           /\ copied_files' = Append(copied_files, target_file_path)
    /\ pc' = "walk"
    /\ UNCHANGED <<err, zip, staging_exists, todo, cur, dirs, remaining_files,
                   reported, removed, cname, ccat>>

\* Variant: the copy error is caught and the loop goes on.
CopyFileFailSkipped ==
    /\ pc = "copy"
    /\ err' = "copy"
    /\ pc' = "walk"
    /\ UNCHANGED <<zip, staging_exists, staging, todo, cur, dirs, dest,
                   copied_files, remaining_files, reported, removed,
                   cname, ccat>>

\* shutil.copy2 raises (permission, space, path); nothing catches it.
CopyFileFail ==
    /\ pc = "copy"
    /\ err' = "copy"
    /\ pc' = "error"
    /\ UNCHANGED <<zip, staging_exists, staging, todo, cur, dirs, dest,
                   copied_files, remaining_files, reported, removed,
                   cname, ccat>>

\* Variant: the branch on remaining_files is taken before the lists are printed.
OrganizeReturnUnreported ==
    /\ pc = "walk"
    /\ todo = {}
    /\ cur' = NoCur
    /\ pc' = IF remaining_files = <<>> THEN "cleanup" ELSE "preserve"
    /\ UNCHANGED <<err, zip, staging_exists, staging, todo, dirs, dest,
                   copied_files, remaining_files, reported, removed,
                   cname, ccat>>

\* os.walk is exhausted: return copied_files, remaining_files
OrganizeReturn ==
    /\ pc = "walk"
    /\ todo = {}
    /\ cur' = NoCur
    /\ pc' = "report"
    /\ UNCHANGED <<err, zip, staging_exists, staging, todo, dirs, dest,
                   copied_files, remaining_files, reported, removed,
                   cname, ccat>>

\* Variant: the cleanup is not conditional.
cleanup_branch_always(remaining) == "cleanup"

\* if not remaining_files: ... else: ...
cleanup_branch(remaining) ==
    IF remaining = <<>> THEN "cleanup" ELSE "preserve"

\* The two lists are printed, then the branch on remaining_files is taken.
Report ==
    /\ pc = "report"
    /\ reported' = <<copied_files, remaining_files>>
    /\ pc' = cleanup_branch(remaining_files)
    /\ UNCHANGED <<err, zip, staging_exists, staging, todo, cur, dirs, dest,
                   copied_files, remaining_files, removed, cname, ccat>>

\* clean_up(extract_to): rmtree if the directory exists.
CleanUp ==
    /\ pc = "cleanup"
    /\ IF staging_exists
       THEN /\ staging' = [f \in {} |-> NoFile]
            /\ staging_exists' = FALSE
            /\ removed' = removed \cup {"staging"}
       ELSE UNCHANGED <<staging, staging_exists, removed>>
    /\ pc' = "remove_zip"
    /\ UNCHANGED <<err, zip, todo, cur, dirs, dest, copied_files,
                   remaining_files, reported, cname, ccat>>

\* os.remove(zip_file_path), then the closing message.
RemoveZip ==
    /\ pc = "remove_zip"
    /\ removed' = removed \cup {"archive"}
    /\ pc' = "done"
    /\ UNCHANGED <<err, zip, staging_exists, staging, todo, cur, dirs, dest,
                   copied_files, remaining_files, reported, cname, ccat>>

\* The else branch: only the message is printed.
Preserve ==
    /\ pc = "preserve"
    /\ pc' = "done"
    /\ UNCHANGED <<err, zip, staging_exists, staging, todo, cur, dirs, dest,
                   copied_files, remaining_files, reported, removed,
                   cname, ccat>>

ProgramNext ==
    \/ Start
    \/ ExtractZip
    \/ ExtractZipFail
    \/ OrganizeEnter
    \/ GetCreationDate
    \/ GetCreationDateFail
    \/ Classify
    \/ CheckDir
    \/ MakeDirs
    \/ MakeDirsFail
    \/ CopyFile
    \/ CopyFileFail
    \/ OrganizeReturn
    \/ Report
    \/ CleanUp
    \/ RemoveZip
    \/ Preserve

Next == ProgramNext \/ OtherProcessMkdir

Spec == Init /\ [][Next]_vars

\* Every call is blocking and runs to completion: the single thread always
\* takes its next step.
FairSpec == Spec /\ WF_vars(ProgramNext)

-----------------------------------------------------------------------------
(* Classification of a single filename *)

NameStems == { <<>>, <<"a">>, <<"A", ".", "b">> }

NameWords ==
    { <<"j", "p", "e", "g">>, <<"j", "p", "g">>, <<"p", "n", "g">>,
      <<"h", "e", "i", "f">>, <<"m", "p", "4">>, <<"m", "o", "v">>,
      <<"a", "v", "i">>, <<"w", "a", "v">>, <<"t", "x", "t">>, <<>> }

ClassifyNames ==
    { st \o sep \o w : st \in NameStems, sep \in { <<>>, <<".">> },
                       w \in UNION { {x, upper(x), capitalize(x)} : x \in NameWords } }
        \ { <<>> }

ClassifyInit ==
    /\ pc = "idle"
    /\ err = "none"
    /\ zip = {}
    /\ staging_exists = FALSE
    /\ staging = [f \in {} |-> NoFile]
    /\ todo = {}
    /\ cur = NoCur
    /\ dest = [p \in {} |-> PreContent]
    /\ dirs = {}
    /\ copied_files = <<>>
    /\ remaining_files = <<>>
    /\ reported = <<>>
    /\ removed = {}
    /\ cname \in ClassifyNames
    /\ ccat = ""

\* The if/elif/else of organize_files applied to one filename.
ClassifyName ==
    /\ ccat = ""
    /\ cname # <<>>
    /\ ccat' = category(cname)
    /\ UNCHANGED <<pc, err, zip, staging_exists, staging, todo, cur, dirs, dest,
                   copied_files, remaining_files, reported, removed,
                   cname>>

ClassifyNext == ClassifyName

ClassifySpec == ClassifyInit /\ [][ClassifyNext]_vars

-----------------------------------------------------------------------------
(* The run controller's phases *)

OrganizePcs == {"organize", "walk", "classify", "check_dir", "makedirs", "copy"}

Phase ==
    CASE pc = "idle"                      -> "Idle"
      [] pc = "extract"                   -> "Extracting"
      [] pc \in OrganizePcs               -> "Organizing"
      [] pc = "report"                    -> "Reporting"
      [] pc \in {"cleanup", "remove_zip"} -> "CleaningUp"
      [] pc = "preserve"                  -> "Preserving"
      [] pc = "done"                      -> "Done"
      [] OTHER                            -> "Error"

-----------------------------------------------------------------------------
(* Properties *)

\* C1: once organize_files has returned, an empty unplaced list leads to the
\* staging directory and the archive both being removed by the end of the
\* run, and a non-empty unplaced list to neither ever being removed.
C1_CleanupGating ==
    /\ (pc = "done" /\ remaining_files = <<>>) =>
          /\ ~staging_exists
          /\ DOMAIN staging = {}
          /\ "archive" \in removed
    /\ (pc \in {"report", "cleanup", "remove_zip", "preserve", "done"}
            /\ remaining_files # <<>>) =>
          /\ removed = {}
          /\ staging_exists
          /\ DOMAIN staging = zip

C1_Witness ==
    /\ pc = "done"
    /\ remaining_files = <<>>
    /\ copied_files # <<>>
    /\ removed = {"staging", "archive"}
    /\ ~staging_exists

\* The name the collision rule asks for: the filename itself when it is free
\* in the directory, otherwise base_N.ext for the smallest free N >= 1.
C2_ExpectedName(directory, filename) ==
    LET se == splitext(filename)
        free(n) == ~path_exists(directory, suffixed(se[1], n, se[2]))
        N == CHOOSE n \in 1..(Cardinality(DOMAIN dest) + 1) :
                free(n) /\ \A m \in 1..(n - 1) : ~free(m)
    IN  IF ~path_exists(directory, filename) THEN filename
        ELSE suffixed(se[1], N, se[2])

C2_CopyStep ==
    (pc = "copy" /\ pc' = "walk") =>
        LET tp == [dir |-> cur.target_dir,
                   name |-> C2_ExpectedName(cur.target_dir, cur.file.name)]
        IN  /\ tp \notin DOMAIN dest
            /\ DOMAIN dest' = DOMAIN dest \cup {tp}
            /\ dest'[tp] = cur.file
            /\ \A p \in DOMAIN dest : dest'[p] = dest[p]
            /\ copied_files' = Append(copied_files, tp)

C2_AllCopiesExist ==
    \A i \in 1..Len(copied_files) :
        /\ copied_files[i] \in DOMAIN dest
        /\ \A j \in 1..Len(copied_files) :
              i # j => /\ copied_files[i] # copied_files[j]
                       /\ dest[copied_files[i]] # dest[copied_files[j]]

\* C2: every placed file is written under its own filename when that name is
\* free in the destination directory at copy time, otherwise under base_N.ext
\* for the smallest free N >= 1; no existing destination file is overwritten,
\* and all the copies of a run exist at distinct paths.
C2_UniqueNames == [][C2_CopyStep]_vars /\ []C2_AllCopiesExist

C2_Witness ==
    \E i, j \in 1..Len(copied_files) :
        /\ i < j
        /\ copied_files[i].dir = copied_files[j].dir
        /\ copied_files[i].name = a_jpg
        /\ copied_files[j].name = a_1_jpg
        /\ dest[copied_files[i]] # dest[copied_files[j]]

\* C3: while organize_files runs and when it returns, every staged file is
\* still in the staging tree with its content unchanged, the copied ones
\* included.
C3_SourceUntouched ==
    (pc \in (OrganizePcs \ {"organize"}) \cup {"report"}) =>
        /\ DOMAIN staging = zip
        /\ \A f \in zip : staging[f] = f
        /\ \A p \in DOMAIN dest :
              dest[p] # PreContent =>
                  dest[p] \in DOMAIN staging /\ staging[dest[p]] = dest[p]

C3_Witness ==
    /\ pc = "report"
    /\ Len(copied_files) = 2
    /\ \A i \in 1..2 : dest[copied_files[i]] \in DOMAIN staging

\* The extension of a filename: from its last dot to the end, in lower case.
C4_Extension(name) ==
    LET dots == {i \in 1..Len(name) : name[i] = "."}
    IN  IF dots = {} THEN <<>>
        ELSE LET last == CHOOSE i \in dots : \A j \in dots : j <= i
             IN  [k \in 1..(Len(name) - last + 1) |-> to_lower(name[last + k - 1])]

C4_Pictures ==
    { <<".", "j", "p", "e", "g">>, <<".", "j", "p", "g">>,
      <<".", "p", "n", "g">>, <<".", "h", "e", "i", "f">> }

C4_Expected(name, videos) ==
    CASE C4_Extension(name) \in C4_Pictures           -> "Pictures"
      [] C4_Extension(name) \in videos                -> "Videos"
      [] C4_Extension(name) = <<".", "w", "a", "v">>  -> "Audio"
      [] OTHER                                        -> "Unclassified"

\* C4 as stated: Pictures for .jpeg .jpg .png .heif, Videos for .mp4 .mov,
\* Audio for .wav, Unclassified for everything else, in any letter case.
C4_AsStated ==
    ccat # "" =>
        ccat = C4_Expected(cname, { <<".", "m", "p", "4">>, <<".", "m", "o", "v">> })

\* C4 amended: the same, with .avi among the Videos extensions.
C4_Classification ==
    ccat # "" =>
        ccat = C4_Expected(cname, { <<".", "m", "p", "4">>, <<".", "m", "o", "v">>,
                                    <<".", "a", "v", "i">> })

C4_Witness ==
    /\ ccat = "Videos"
    /\ cname = <<"A", ".", "b", ".", "A", "V", "I">>

C5_Bucket(d) == target_dir_of(ToString(d.year), MonthNames[d.month], "Pictures")

\* C5: for a picture whose embedded capture date is absent, malformed or
\* unreadable, no metadata error leaves get_creation_date, the date used is
\* the modification time, and the copy lands in that month's Pictures
\* directory.
C5_MetadataFallback ==
    (cur.file # NoFile /\ category(cur.file.name) = "Pictures"
            /\ cur.meta.kind \in BadMeta) =>
        /\ err # "metadata"
        /\ cur.mtime.ok => err # "getmtime"
        /\ pc \in {"classify", "check_dir", "makedirs", "copy", "walk"} =>
              cur.creation_date = cur.mtime.date
        /\ cur.category # "" => cur.target_dir = C5_Bucket(cur.mtime.date)
        /\ (pc = "walk" /\ cur.category # "") =>
              /\ copied_files[Len(copied_files)].dir = C5_Bucket(cur.mtime.date)
              /\ dest[copied_files[Len(copied_files)]] = cur.file

C5_Witness ==
    /\ pc = "walk"
    /\ cur.category = "Pictures"
    /\ cur.meta.kind = "malformed"
    /\ cur.mtime.date = [year |-> 2022, month |-> 1]
    /\ copied_files[Len(copied_files)].dir
          = <<dest_dir, "family", "2022", "January", "Pictures">>

C6_Failed ==
    /\ err # "none" => pc = "error"
    /\ pc = "error" => /\ err # "none"
                       /\ removed = {}
                       /\ reported = <<>>
    /\ err = "extract" => /\ copied_files = <<>>
                          /\ remaining_files = <<>>
                          /\ \A p \in DOMAIN dest : dest[p] = PreContent
    /\ err = "copy" => \A p \in DOMAIN dest : dest[p] # cur.file

C6_Stopped ==
    pc = "error" => /\ pc' = "error"
                    /\ dest' = dest
                    /\ staging' = staging
                    /\ removed' = removed
                    /\ copied_files' = copied_files

\* C6: a failed extraction or a failed copy ends the run there: nothing is
\* organized after a failed extraction, nothing more is copied after a failed
\* copy, the failure is not passed over, and nothing is deleted.
C6_FailureStopsRun == []C6_Failed /\ [][C6_Stopped]_vars

C6_Witness ==
    /\ pc = "error"
    /\ err = "copy"
    /\ Len(copied_files) = 1
    /\ todo = {}
    /\ removed = {}
    /\ staging_exists

PhaseEdges ==
    { <<"Idle", "Extracting">>, <<"Extracting", "Organizing">>,
      <<"Organizing", "Reporting">>, <<"Reporting", "CleaningUp">>,
      <<"Reporting", "Preserving">>, <<"CleaningUp", "Done">>,
      <<"Preserving", "Done">> }

C7_PhaseStep ==
    (Phase' # Phase /\ err' = "none") => <<Phase, Phase'>> \in PhaseEdges

C7_ReportedBeforeDeletion ==
    (pc \in {"cleanup", "remove_zip"} \/ removed # {}) =>
        reported = <<copied_files, remaining_files>>

\* C7: a run that meets no error moves through Idle, Extracting, Organizing,
\* Reporting, one of CleaningUp and Preserving, and Done, one phase after the
\* other; the lists are reported before anything is deleted; and the run
\* reaches Done.
C7_PhaseOrder ==
    /\ [][C7_PhaseStep]_vars
    /\ []C7_ReportedBeforeDeletion
    /\ <>(Phase = "Done" \/ err # "none")

C7_Witness ==
    /\ Phase = "Done"
    /\ err = "none"
    /\ removed = {}
    /\ Len(reported) = 2
    /\ reported[2] # <<>>

\* C8: an Unclassified file is skipped before its creation time is resolved
\* and can never make the run fail.
C8_ClassifiedFirst ==
    (cur.file # NoFile /\ category(cur.file.name) = "Unclassified") =>
        /\ cur.creation_date = NoDate
        /\ err = "none"

\* C9: creating the destination directory never fails because the directory
\* exists, whoever created it and whenever.
C9_MakedirsTolerant == err # "FileExistsError"

\* C10: whenever the run has deleted the staging directory or the archive,
\* nothing was left unplaced, every staged file has one entry in the placed
\* list, and each has its own copy at its own destination path.
C10_NoDataLoss ==
    removed # {} =>
        /\ remaining_files = <<>>
        /\ Len(copied_files) = Cardinality(zip)
        /\ \A i, j \in 1..Len(copied_files) :
              i # j => copied_files[i] # copied_files[j]
        /\ \A f \in zip :
              \E i \in 1..Len(copied_files) :
                  /\ copied_files[i] \in DOMAIN dest
                  /\ dest[copied_files[i]] = f

C10_Witness ==
    /\ removed = {"staging", "archive"}
    /\ Len(copied_files) = 2
    /\ copied_files[1].dir = copied_files[2].dir
    /\ dest[copied_files[1]].name = dest[copied_files[2]].name
    /\ dest[copied_files[1]] # dest[copied_files[2]]

====
